---- MODULE Spec2Model ----
(***************************************************************************)
(* Model of the two message services of the repository:                    *)
(*   src/fastapi_server.py  the HTTP service (one handler per route)       *)
(*   src/udp_server.py      the UDP receive loop with its shutdown flag    *)
(* The two programs are separate processes; `service` says which one a     *)
(* behaviour is a run of.                                                  *)
(***************************************************************************)
EXTENDS Integers, Sequences, FiniteSets, TLC

\* ------------------------------------------------------------------------
\* Bounds
\* ------------------------------------------------------------------------
\* instants the clock can show when a handler reads it
MaxClock == 1
\* distinct client addresses
NumClients == 2

Clock == 0..MaxClock
Clients == 1..NumClients

\* ------------------------------------------------------------------------
\* JSON / Python values.  kind says which of s (text) and n (number, or the
\* number of elements of a container) carries the value.  Record fields are
\* written in the order in which TLC keeps them (kind, n, s here), so that a
\* record is never re-sorted while several workers read it.
\* ------------------------------------------------------------------------
Absent == [kind |-> "absent", n |-> 0, s |-> ""]
None == [kind |-> "null", n |-> 0, s |-> ""]
Str(x) == [kind |-> "str", n |-> 0, s |-> x]
Num(i) == [kind |-> "num", n |-> i, s |-> ""]
ListV(len) == [kind |-> "list", n |-> len, s |-> ""]
ObjV(len) == [kind |-> "obj", n |-> len, s |-> ""]

\* Python truth value of a value (`if x:`, `x or y`, `not x`)
Truthy(v) ==
  CASE v.kind = "absent" -> FALSE
    [] v.kind = "null" -> FALSE
    [] v.kind = "str" -> v.s # ""
    [] v.kind = "num" -> v.n # 0
    [] OTHER -> v.n > 0

\* isinstance(v, str)
IsStr(v) == v.kind = "str"

\* datetime.utcnow().isoformat() + 'Z' read at instant t
Timestamp(t) == [kind |-> "str", n |-> t, s |-> "utc"]

\* ------------------------------------------------------------------------
\* Inbound payloads
\* ------------------------------------------------------------------------
Keys == {"id", "message_id", "prompt", "type"}
AllAbsent == [k \in Keys |-> Absent]

IdVals == {Absent, Str(""), Str("abc"), ListV(1)}
MsgIdVals == {Absent, Str("xyz")}
TypeVals == {Absent, Str("move")}
PromptVals == {Absent, Str(""), Str("hi"), Num(123)}

ObjFields == {[id |-> i, message_id |-> m, prompt |-> pr, type |-> ty] :
                i \in IdVals, m \in MsgIdVals, ty \in TypeVals, pr \in PromptVals}

\* enc: what the bytes are.  "empty" no bytes, "notutf8" bytes that are not
\* UTF-8, "notjson" text that is not JSON, "json" JSON text whose top-level
\* value is `top` (an object carries its fields in f).
Payloads ==
  [f : {AllAbsent}, enc : {"empty", "notutf8", "notjson"}, top : {"none"}]
  \cup [f : {AllAbsent}, enc : {"json"}, top : {"null", "num", "str", "list"}]
  \cup [f : ObjFields, enc : {"json"}, top : {"obj"}]

\* dict.get(k) and dict.get(k, default)
Get(f, k) == IF f[k] = Absent THEN None ELSE f[k]
GetDefault(f, k, d) == IF f[k] = Absent THEN d ELSE f[k]

\* Python `a or b`
Or(a, b) == IF Truthy(a) THEN a ELSE b

\* ------------------------------------------------------------------------
\* Reply bodies: a JSON object as a map from key to value, Absent for a key
\* the object does not have.  "data.processed_type" is the entry of the
\* nested object under "data".
\* ------------------------------------------------------------------------
RespKeys == {"message_id", "type", "status", "message", "timestamp", "data",
             "data.processed_type", "response", "name", "version",
             "endpoints", "detail"}
EmptyBody == [k \in RespKeys |-> Absent]
Obj(pairs) == [k \in RespKeys |-> IF k \in DOMAIN pairs THEN pairs[k] ELSE Absent]

\* ========================================================================
\* HTTP service (src/fastapi_server.py)
\* ========================================================================
VARIABLES
  service,          \* which program runs: "http" or "udp"
  GEMINI_API_KEY,   \* the environment's key as read at start-up (None: unset)
  exch,             \* the last HTTP exchange: the request and the response to it
  bridgeInvoked     \* GEMINI_MODEL.generate_content has been invoked at least once

ApiKeys == {None, Str(""), Str("secret")}

\* what GEMINI_MODEL.generate_content(prompt) / response.text can do
BridgeOutcomes == {"raises", "empty_text", "text"}

\* ------------------------------------------------------------------------
\* State of the UDP service (src/udp_server.py)
\* ------------------------------------------------------------------------
VARIABLES
  pc,            \* where start_server is: "start", "loop" (the `while running`
                 \* test), "recv" (blocked in recvfrom), "handle" (inside
                 \* handle_client_message), "done" (returned)
  running,       \* the module-level shutdown flag
  sock,          \* server_socket: "none", "open", "closed"
  cur,           \* the datagram recvfrom returned last, with its sender
  sends,         \* the sendto attempts made for cur, in order
  prevEnc,       \* what the datagram received before cur was (its enc)
  sigAt          \* where the loop was when the flag was first cleared ("none": never)

udpVars == <<pc, running, sock, cur, sends, prevEnc, sigAt>>
vars == <<service, GEMINI_API_KEY, exch, bridgeInvoked,
          pc, running, sock, cur, sends, prevEnc, sigAt>>

\* a response: status code, JSON body, and whether building it invoked
\* GEMINI_MODEL.generate_content
Response(code, body, called) == [body |-> body, code |-> code, called |-> called]

\* mutant: the envelope is built without its status
CreateAcknowledgment_NoStatus(message_id, status, t, pt) ==
  Obj( ("type" :> Str("acknowledgment"))
    @@ ("timestamp" :> Timestamp(t))
    @@ (IF Truthy(message_id) THEN ("message_id" :> message_id) ELSE <<>>)
    @@ (IF pt # Absent THEN ("data" :> ObjV(1)) @@ ("data.processed_type" :> pt)
                       ELSE <<>>) )

\* create_acknowledgment; pt is the processed_type of the data mapping,
\* Absent when the caller passes no data
CreateAcknowledgment(message_id, status, t, pt) ==
  Obj( ("type" :> Str("acknowledgment"))
    @@ ("status" :> Str(status))
    @@ ("timestamp" :> Timestamp(t))
    @@ (IF Truthy(message_id) THEN ("message_id" :> message_id) ELSE <<>>)
    @@ (IF pt # Absent THEN ("data" :> ObjV(1)) @@ ("data.processed_type" :> pt)
                       ELSE <<>>) )

\* `await request.json()`: json.loads of the body bytes
RequestJson(req) ==
  CASE req.enc = "notutf8" -> "UnicodeDecodeError"
    [] req.enc \in {"empty", "notjson"} -> "JSONDecodeError"
    [] OTHER -> "value"

\* payload.get(...) on a value that is not a dict raises AttributeError
HasGet(req) == req.top = "obj"

\* POST /message
ReceiveMessage(req, t) ==
  CASE RequestJson(req) = "JSONDecodeError" ->
         Response(400, Obj( ("type" :> Str("error"))
                         @@ ("status" :> Str("invalid_json"))
                         @@ ("message" :> Str("Request body must be valid JSON")) ), FALSE)
    [] RequestJson(req) = "value" /\ HasGet(req) ->
         Response(200, CreateAcknowledgment(
                         Or(Get(req.f, "id"), Get(req.f, "message_id")),
                         "received", t,
                         GetDefault(req.f, "type", Str("unknown"))), FALSE)
    [] OTHER ->
         Response(500, Obj( ("type" :> Str("error"))
                         @@ ("status" :> Str("server_error"))
                         @@ ("message" :> Str("str(e)")) ), FALSE)

\* POST /data
ReceiveData(req, t) ==
  CASE RequestJson(req) = "JSONDecodeError" ->
         Response(400, Obj( ("type" :> Str("error"))
                         @@ ("status" :> Str("invalid_json")) ), FALSE)
    [] RequestJson(req) = "value" /\ HasGet(req) ->
         Response(200, CreateAcknowledgment(Get(req.f, "id"), "ok", t, Absent), FALSE)
    [] OTHER ->
         Response(500, Obj( ("type" :> Str("error"))
                         @@ ("status" :> Str("server_error")) ), FALSE)

NotConfigured ==
  Response(503, Obj( ("type" :> Str("error"))
                  @@ ("status" :> Str("gemini_not_configured"))
                  @@ ("message" :> Str("Gemini API is not configured")) ), FALSE)

\* mutant: the isinstance test is dropped
ValidPrompt_AnyTruthy(prompt) == Truthy(prompt)

\* `if not prompt or not isinstance(prompt, str)` is false
ValidPrompt(prompt) == Truthy(prompt) /\ IsStr(prompt)

\* the call of the bridge and the envelope built from its result
Generate(message_id, t, g) ==
  IF g = "raises"
  THEN Response(500, Obj( ("type" :> Str("error"))
                       @@ ("status" :> Str("ai_error"))
                       @@ ("message" :> Str("str(e)")) ), TRUE)
  ELSE Response(200, Obj( ("type" :> Str("ai_response"))
                       @@ ("status" :> Str("ok"))
                       @@ ("response" :> (IF g = "text" THEN Str("generated text")
                                          ELSE Str("No response generated")))
                       @@ ("timestamp" :> Timestamp(t))
                       @@ (IF Truthy(message_id) THEN ("message_id" :> message_id)
                           ELSE <<>>) ), TRUE)

\* mutant: the key is not tested before the request is processed
AiPrompt_NoKeyCheck(req, t, g) ==
  CASE RequestJson(req) = "JSONDecodeError" ->
         Response(400, Obj( ("type" :> Str("error"))
                         @@ ("status" :> Str("invalid_json")) ), FALSE)
    [] RequestJson(req) = "value" /\ HasGet(req) ->
         IF ~(Truthy(Get(req.f, "prompt")) /\ IsStr(Get(req.f, "prompt")))
         THEN Response(400, Obj( ("type" :> Str("error"))
                              @@ ("status" :> Str("missing_prompt")) ), FALSE)
         ELSE Generate(Get(req.f, "id"), t, g)
    [] OTHER ->
         Response(500, Obj( ("type" :> Str("error"))
                         @@ ("status" :> Str("server_error")) ), FALSE)

\* POST /ai
AiPrompt(req, t, g) ==
  CASE ~Truthy(GEMINI_API_KEY) -> NotConfigured
    [] RequestJson(req) = "JSONDecodeError" ->
         Response(400, Obj( ("type" :> Str("error"))
                         @@ ("status" :> Str("invalid_json")) ), FALSE)
    [] RequestJson(req) = "value" /\ HasGet(req) ->
         IF ~ValidPrompt(Get(req.f, "prompt"))
         THEN Response(400, Obj( ("type" :> Str("error"))
                              @@ ("status" :> Str("missing_prompt")) ), FALSE)
         ELSE Generate(Get(req.f, "id"), t, g)
    [] OTHER ->
         Response(500, Obj( ("type" :> Str("error"))
                         @@ ("status" :> Str("server_error")) ), FALSE)

\* GET /ai; the query parameters prompt and id are in req.f
AiPromptGet(req, t, g) ==
  CASE ~Truthy(GEMINI_API_KEY) -> NotConfigured
    [] ~Truthy(Get(req.f, "prompt")) ->
         Response(400, Obj( ("type" :> Str("error"))
                         @@ ("status" :> Str("missing_prompt")) ), FALSE)
    [] OTHER -> Generate(Get(req.f, "id"), t, g)

\* health_check
HealthCheck(t) ==
  Response(200, Obj( ("status" :> Str("healthy"))
                  @@ ("timestamp" :> Timestamp(t)) ), FALSE)

\* GET /
Root ==
  Response(200, Obj( ("name" :> Str("UE5 VaRest Server"))
                  @@ ("version" :> Str("1.0.0"))
                  @@ ("endpoints" :> ObjV(5)) ), FALSE)

\* the routes the application registers (the @app.post / @app.get decorators)
RegisteredRoutes == {"POST /message", "POST /data", "POST /ai", "GET /ai", "GET /"}

\* the framework's answer for a route nobody registered
NotFound == Response(404, Obj( "detail" :> Str("Not Found") ), FALSE)

\* the framework's routing of a request to its handler
Dispatch(req, t, g) ==
  CASE req.route \notin RegisteredRoutes -> NotFound
    [] req.route = "POST /message" -> ReceiveMessage(req, t)
    [] req.route = "POST /data" -> ReceiveData(req, t)
    [] req.route = "POST /ai" -> AiPrompt(req, t, g)
    [] req.route = "GET /ai" -> AiPromptGet(req, t, g)
    [] req.route = "GET /" -> Root
    [] OTHER -> HealthCheck(t)

Request(route, p) == [f |-> p.f, enc |-> p.enc, top |-> p.top, route |-> route]
NoPayload == [f |-> AllAbsent, enc |-> "none", top |-> "none"]
NoExchange == [resp |-> Response(0, EmptyBody, FALSE), req |-> Request("none", NoPayload)]

\* query strings of GET /ai: prompt and id are strings or missing
Queries == {[f |-> [AllAbsent EXCEPT !["prompt"] = pr, !["id"] = i],
             enc |-> "none", top |-> "none"] :
              pr \in {Absent, Str(""), Str("hi")}, i \in {Absent, Str(""), Str("abc")}}

\* one request served: the handler's response becomes the last exchange
Serve(req, t, g) ==
  /\ service = "http"
  /\ exch' = [resp |-> Dispatch(req, t, g), req |-> req]
  /\ bridgeInvoked' = (bridgeInvoked \/ exch'.resp.called)
  /\ UNCHANGED <<service, GEMINI_API_KEY>>
  /\ UNCHANGED udpVars

PostMessage == \E p \in Payloads, t \in Clock :
  Serve(Request("POST /message", p), t, "text")
PostData == \E p \in Payloads, t \in Clock :
  Serve(Request("POST /data", p), t, "text")
PostAi == \E p \in Payloads, t \in Clock, g \in BridgeOutcomes :
  Serve(Request("POST /ai", p), t, g)
GetAi == \E q \in Queries, t \in Clock, g \in BridgeOutcomes :
  Serve(Request("GET /ai", q), t, g)
GetHealth == \E t \in Clock :
  Serve(Request("GET /health", NoPayload), t, "text")
GetRoot == \E t \in Clock :
  Serve(Request("GET /", NoPayload), t, "text")

HttpNext == PostMessage \/ PostData \/ PostAi \/ GetAi \/ GetHealth \/ GetRoot

\* ========================================================================
\* UDP service (src/udp_server.py)
\* ========================================================================
\* the datagrams clients send: the payloads that carry no `prompt` (a field of
\* the HTTP /ai route only), each from any client address
Datagrams == {[f |-> p.f, enc |-> p.enc, top |-> p.top, addr |-> a] :
                p \in {q \in Payloads : q.f["prompt"] = Absent}, a \in Clients}
NoDatagram == [f |-> AllAbsent, enc |-> "none", top |-> "none", addr |-> 0]

\* create_acknowledgment of the UDP service (no data argument)
UdpCreateAcknowledgment(message_id, status, t) ==
  Obj( ("type" :> Str("acknowledgment"))
    @@ ("status" :> Str(status))
    @@ ("timestamp" :> Timestamp(t))
    @@ (IF Truthy(message_id) THEN ("message_id" :> message_id) ELSE <<>>) )

\* parse_message: "None" when decoding or parsing fails, and also when the
\* text is the JSON value null (json.loads returns None)
ParseMessage(d) ==
  CASE d.enc \in {"notutf8", "notjson", "empty"} -> "None"
    [] d.enc = "json" /\ d.top = "null" -> "None"
    [] OTHER -> "value"

UdpErrorBody == Obj( ("type" :> Str("error")) @@ ("status" :> Str("invalid_json")) )

SendTo(body, addr, ok) == [body |-> body, ok |-> ok, to |-> addr]

\* mutant: a datagram that does not parse is dropped without a reply
HandleClientMessage_SilentOnError(d, t, ok) ==
  CASE ParseMessage(d) = "None" -> << >>
    [] d.top # "obj" -> << >>
    [] OTHER ->
         << SendTo(UdpCreateAcknowledgment(
                     Or(Get(d.f, "id"), Get(d.f, "message_id")), "ok", t),
                   d.addr, ok) >>

\* handle_client_message: the sendto attempts it makes for datagram d.
\* ok: sendto returns (otherwise it raises, which is logged and swallowed).
\* A parsed value that is not a dict has no .get: AttributeError leaves the
\* handler before any sendto.
HandleClientMessage(d, t, ok) ==
  CASE ParseMessage(d) = "None" -> << SendTo(UdpErrorBody, d.addr, ok) >>
    [] d.top # "obj" -> << >>
    [] OTHER ->
         << SendTo(UdpCreateAcknowledgment(
                     Or(Get(d.f, "id"), Get(d.f, "message_id")), "ok", t),
                   d.addr, ok) >>

\* shutdown_server: close the socket if there is one
ShutdownServer(s) == IF s = "none" THEN "none" ELSE "closed"

\* start_server up to the loop: socket(), setsockopt, settimeout, bind,
\* signal.signal.  A failure runs the finally clause.
StartServer ==
  /\ service = "udp" /\ pc = "start"
  /\ \E outcome \in {"bound", "bind_error", "socket_error"} :
       CASE outcome = "bound" -> sock' = "open" /\ pc' = "loop"
         [] outcome = "bind_error" -> sock' = ShutdownServer("open") /\ pc' = "done"
         [] OTHER -> sock' = ShutdownServer("none") /\ pc' = "done"
  /\ UNCHANGED <<running, cur, sends, prevEnc, sigAt>>
  /\ UNCHANGED <<service, GEMINI_API_KEY, exch, bridgeInvoked>>

\* signal_handler: SIGINT while the handler is installed
SignalHandler ==
  /\ service = "udp" /\ pc \in {"loop", "recv", "handle"}
  /\ running' = FALSE
  /\ sigAt' = IF running THEN pc ELSE sigAt
  /\ UNCHANGED <<pc, sock, cur, sends, prevEnc>>
  /\ UNCHANGED <<service, GEMINI_API_KEY, exch, bridgeInvoked>>

\* `while running:` and, when it fails, the finally clause
LoopCheck ==
  /\ service = "udp" /\ pc = "loop"
  /\ IF running
     THEN pc' = "recv" /\ sock' = sock
     ELSE pc' = "done" /\ sock' = ShutdownServer(sock)
  /\ UNCHANGED <<running, cur, sends, prevEnc, sigAt>>
  /\ UNCHANGED <<service, GEMINI_API_KEY, exch, bridgeInvoked>>

\* recvfrom returns a datagram; `if data:` skips an empty one
RecvDatagram ==
  /\ service = "udp" /\ pc = "recv"
  /\ \E d \in Datagrams :
       /\ cur' = d
       /\ sends' = << >>
       /\ pc' = IF d.enc # "empty" THEN "handle" ELSE "loop"
  /\ prevEnc' = cur.enc
  /\ UNCHANGED <<running, sock, sigAt>>
  /\ UNCHANGED <<service, GEMINI_API_KEY, exch, bridgeInvoked>>

\* recvfrom raises socket.timeout after TIMEOUT seconds: `continue`
RecvTimeout ==
  /\ service = "udp" /\ pc = "recv"
  /\ pc' = "loop"
  /\ UNCHANGED <<running, sock, cur, sends, prevEnc, sigAt>>
  /\ UNCHANGED <<service, GEMINI_API_KEY, exch, bridgeInvoked>>

\* recvfrom raises another exception: logged, `continue`
RecvError ==
  /\ service = "udp" /\ pc = "recv"
  /\ pc' = "loop"
  /\ UNCHANGED <<running, sock, cur, sends, prevEnc, sigAt>>
  /\ UNCHANGED <<service, GEMINI_API_KEY, exch, bridgeInvoked>>

\* handle_client_message runs to its end (or to the loop's `except Exception`)
Handle ==
  /\ service = "udp" /\ pc = "handle"
  /\ \E t \in Clock, ok \in BOOLEAN : sends' = HandleClientMessage(cur, t, ok)
  /\ pc' = "loop"
  /\ UNCHANGED <<running, sock, cur, prevEnc, sigAt>>
  /\ UNCHANGED <<service, GEMINI_API_KEY, exch, bridgeInvoked>>

UdpNext == StartServer \/ SignalHandler \/ LoopCheck \/ RecvDatagram
           \/ RecvTimeout \/ RecvError \/ Handle

\* ========================================================================
\* Specifications
\* ========================================================================
Init ==
  /\ service \in {"http", "udp"}
  /\ GEMINI_API_KEY \in ApiKeys
  /\ exch = NoExchange
  /\ bridgeInvoked = FALSE
  /\ pc = "start"
  /\ running = TRUE
  /\ sock = "none"
  /\ cur = NoDatagram
  /\ sends = << >>
  /\ prevEnc = "none"
  /\ sigAt = "none"

Next == HttpNext \/ UdpNext

Spec == Init /\ [][Next]_vars

\* the loop's steps are taken when they can be: the interpreter keeps
\* running, and a blocked recvfrom ends by a datagram or by its timeout
FairSpec == Spec /\ WF_vars(LoopCheck) /\ WF_vars(RecvDatagram \/ RecvTimeout \/ RecvError)
                 /\ WF_vars(Handle)

TypeOK ==
  /\ service \in {"http", "udp"}
  /\ pc \in {"start", "loop", "recv", "handle", "done"}
  /\ running \in BOOLEAN
  /\ sock \in {"none", "open", "closed"}
  /\ Len(sends) <= 1

\* ========================================================================
\* Claims
\* ========================================================================
EnvelopeRoutes == {"POST /message", "POST /data", "POST /ai", "GET /ai"}
InvalidEncs == {"empty", "notutf8", "notjson"}

\* the correlation values of an inbound message that are present and truthy
TruthyIds(f) == {v \in {f["id"], f["message_id"]} : Truthy(v)}

\* the message_id a reply must carry for inbound fields f
EchoOk(f, body) ==
  IF TruthyIds(f) # {} THEN body["message_id"] \in TruthyIds(f)
                       ELSE body["message_id"] = Absent

\* the loop is not inside handle_client_message: what `sends` holds is all
\* that was sent for cur
Handled == pc # "handle" /\ cur # NoDatagram

\* C1: on every envelope-building route and in the UDP handler, a reply to an
\* inbound message with a truthy `id` or `message_id` carries that value as
\* message_id, and a reply to a message with neither carries no message_id.
C1_MessageIdEcho ==
  /\ (exch.req.route \in EnvelopeRoutes
        /\ (exch.req.top = "obj" \/ exch.req.route = "GET /ai"))
       => EchoOk(exch.req.f, exch.resp.body)
  /\ (Handled /\ cur.top = "obj" /\ Len(sends) > 0)
       => EchoOk(cur.f, sends[1].body)

\* C2: a body that is not valid JSON is answered by POST /message, POST /data
\* and POST /ai with 400 and an envelope type=error, status=invalid_json.
C2_InvalidJsonIs400 ==
  (exch.req.route \in {"POST /message", "POST /data", "POST /ai"}
     /\ exch.req.enc \in InvalidEncs)
    => /\ exch.resp.code = 400
       /\ exch.resp.body["type"] = Str("error")
       /\ exch.resp.body["status"] = Str("invalid_json")

\* C3: with no API key configured, every POST /ai and GET /ai request is
\* answered 503 gemini_not_configured and the AI bridge is never invoked.
C3_UnconfiguredShortCircuits ==
  ~Truthy(GEMINI_API_KEY)
    => /\ ~bridgeInvoked
       /\ exch.req.route \in {"POST /ai", "GET /ai"}
            => /\ exch.resp.code = 503
               /\ exch.resp.body["status"] = Str("gemini_not_configured")
               /\ ~exch.resp.called

\* a request that would reach the bridge if a key were configured got the 503
C3_Witness ==
  /\ ~Truthy(GEMINI_API_KEY)
  /\ exch.req.route = "POST /ai"
  /\ exch.req.f["prompt"] = Str("hi")
  /\ exch.resp.code = 503

\* C4: every well-formed JSON body without `prompt` posted to /message gets
\* 200, type=acknowledgment, status=received and data.processed_type equal
\* to the inbound `type`, or "unknown" when `type` is absent.
C4_MessageProcessedType ==
  (exch.req.route = "POST /message" /\ exch.req.enc = "json"
     /\ exch.req.f["prompt"] = Absent)
    => /\ exch.resp.code = 200
       /\ exch.resp.body["type"] = Str("acknowledgment")
       /\ exch.resp.body["status"] = Str("received")
       /\ exch.resp.body["data.processed_type"] =
            (IF exch.req.f["type"] = Absent THEN Str("unknown")
                                            ELSE exch.req.f["type"])

\* the `prompt` of a JSON object is missing, empty or not a string
BadPrompt(f) ==
  \/ f["prompt"] = Absent
  \/ f["prompt"] = Str("")
  \/ f["prompt"].kind # "str"

C6_HealthServed ==
  exch.req.route = "GET /health"
    => /\ exch.resp.code = 200
       /\ exch.resp.body["status"] = Str("healthy")
       /\ exch.resp.body["timestamp"] # Absent

Nested(v) == v.kind \in {"list", "obj"}
Flat(body) == \A k \in RespKeys : ~Nested(body[k])
HasTypeAndStatus(body) == body["type"] # Absent /\ body["status"] # Absent

\* C7: every response of a route or of the UDP handler is a flat JSON object
\* (no nested object, no array) that has the keys type and status.
C7_FlatWithTypeStatus ==
  /\ exch.req.route \in RegisteredRoutes
       => Flat(exch.resp.body) /\ HasTypeAndStatus(exch.resp.body)
  /\ \A i \in DOMAIN sends :
       Flat(sends[i].body) /\ HasTypeAndStatus(sends[i].body)

TypeTokens == {Str("acknowledgment"), Str("ai_response"), Str("error")}
StatusTokens == {Str("ok"), Str("received"), Str("invalid_json"),
                 Str("missing_prompt"), Str("gemini_not_configured"),
                 Str("ai_error"), Str("server_error")}

\* type and status are tokens of the envelope; error envelopes are flat;
\* a success envelope nests only `data` and what it echoes from the client
Envelope(body) ==
  /\ body["type"] \in TypeTokens
  /\ body["status"] \in StatusTokens
  /\ body["type"] = Str("error") => Flat(body)
  /\ \A k \in RespKeys :
       Nested(body[k]) => k \in {"data", "message_id", "data.processed_type"}

\* C7 as amended: every response of POST /message, POST /data, POST /ai,
\* GET /ai and of the UDP handler is a JSON object with type and status
\* tokens; error envelopes are flat, and a success envelope is flat except
\* for the `data` object of POST /message and client values echoed verbatim.
C7_EnvelopeHasTypeStatus ==
  /\ exch.req.route \in EnvelopeRoutes => Envelope(exch.resp.body)
  /\ exch.req.route = "POST /message" /\ exch.resp.code = 200
       => exch.resp.body["data"] = ObjV(1)
  /\ exch.req.route \in EnvelopeRoutes \ {"POST /message"}
       => exch.resp.body["data"] = Absent
  /\ \A i \in DOMAIN sends :
       Envelope(sends[i].body) /\ sends[i].body["data"] = Absent

\* a success envelope of POST /message, with its nested data object
C7_Witness ==
  /\ exch.req.route = "POST /message"
  /\ exch.resp.code = 200
  /\ Nested(exch.resp.body["data"])
  /\ HasTypeAndStatus(exch.resp.body)

\* one invalid_json reply, attempted to the sender of cur
ErrorReplied ==
  /\ Len(sends) = 1
  /\ sends[1].to = cur.addr
  /\ sends[1].body = UdpErrorBody

\* a step that leaves handle_client_message goes back to the loop test with
\* the flag and the socket as they were
HandlingKeepsRunning ==
  (pc = "handle" /\ pc' # "handle")
    => pc' = "loop" /\ running' = running /\ sock' = "open"

\* one acknowledgment with status ok, attempted to the sender of cur
AckReplied ==
  /\ Len(sends) = 1
  /\ sends[1].to = cur.addr
  /\ sends[1].body["type"] = Str("acknowledgment")
  /\ sends[1].body["status"] = Str("ok")
  /\ sends[1].body["timestamp"] \in {Timestamp(t) : t \in Clock}
  /\ EchoOk(cur.f, sends[1].body)

C9_JsonDatagramAcknowledged ==
  (Handled /\ cur.enc = "json") => AckReplied

\* C10: once the flag is cleared, the datagram being handled is completed
\* with its reply, no receive is started after the flag is next tested, the
\* loop exits, the socket is then closed, and the flag stays cleared.
C10_CooperativeShutdown ==
  /\ [](sigAt = "handle" /\ pc # "handle" => Len(sends) = 1 /\ sends[1].to = cur.addr)
  /\ [][(pc = "handle" /\ pc' # "handle") => (pc' = "loop" /\ sock' = "open")]_vars
  /\ [][(pc = "loop" /\ ~running /\ pc' # "loop") => (pc' = "done" /\ sock' = "closed")]_vars
  /\ [](sock = "closed" => pc = "done")
  /\ [][~running => ~running']_vars
  /\ (~running ~> (pc = "done" /\ sock = "closed"))

\* the parts of C10 that do not depend on the handler sending a reply
C10_ShutdownWithoutReplyPart ==
  /\ [][(pc = "handle" /\ pc' # "handle") => (pc' = "loop" /\ sock' = "open")]_vars
  /\ [][(pc = "loop" /\ ~running /\ pc' # "loop") => (pc' = "done" /\ sock' = "closed")]_vars
  /\ [](sock = "closed" => pc = "done")
  /\ [][~running => ~running']_vars
  /\ (~running ~> (pc = "done" /\ sock = "closed"))

\* a receive is started only from the loop test, and a datagram is taken
\* into handling only out of a receive
ReceiveAfterHandling ==
  /\ pc' = "recv" /\ pc # "recv" => pc = "loop"
  /\ pc' = "handle" /\ pc # "handle" => pc = "recv"

\* leaving handle_client_message, with a send that failed or not, leads back
\* to the loop test with the socket open and the flag untouched
SendFailureKeepsLoop ==
  (pc = "handle" /\ pc' # "handle")
    => pc' = "loop" /\ sock' = "open" /\ running' = running

\* C11: every received datagram is fully handled, with exactly one reply
\* send attempted to its sender, before the next receive is attempted; no
\* datagram is left without a reply attempt or answered twice, and a failing
\* send does not stop the loop.
C11_OneReplyPerDatagram ==
  /\ [](Handled => Len(sends) = 1 /\ sends[1].to = cur.addr)
  /\ [](Len(sends) <= 1)
  /\ [][ReceiveAfterHandling]_vars
  /\ [][SendFailureKeepsLoop]_vars

\* the parts of C11 that hold: at most one reply attempt per datagram, always
\* to its sender, handling finished before the next receive, and a failed
\* send leaves the loop running
C11_AtMostOneReplyInSequence ==
  /\ [](\A i \in DOMAIN sends : sends[i].to = cur.addr)
  /\ [](Len(sends) <= 1)
  /\ [](pc = "handle" => sends = << >>)
  /\ [][ReceiveAfterHandling]_vars
  /\ [][SendFailureKeepsLoop]_vars

\* a send failed and the loop went on to receive again
C11_FailedSendLoopGoesOn ==
  /\ Len(sends) = 1 /\ ~sends[1].ok
  /\ pc = "recv" /\ running /\ sock = "open"

====
